---- MODULE Spec2Model ----
(***************************************************************************)
(* A model of list-posts.c: the program that scans the directory "posts",  *)
(* reads the "key: value" header of every file, derives a 64-bit sort key  *)
(* from the date line and prints one JSON object per file between "[" and  *)
(* "]".                                                                    *)
(*                                                                         *)
(* Text is a sequence of one-character strings.  The token NUL stands for  *)
(* the byte 0 that terminates a C string.  A 64-bit integer is a record    *)
(* [hi, lo] of its two 32-bit halves (the model checker's integers are 32  *)
(* bits wide); every byte the model packs is ASCII, so both halves stay    *)
(* below 2^31 and the conversion uint64_t -> int64_t keeps the value.      *)
(***************************************************************************)
EXTENDS Integers, Sequences, FiniteSets, TLC

VARIABLES
  pc,      \* where main stands: "opendir", "readdir", "getline", "header",
           \* "store", "qsort", "print" or "exit"
  dir,     \* the entries readdir has returned so far, in its order
  f,       \* the lines of the file that is open
  fpos,    \* how many of them getline has read
  line,    \* the buffer getline fills: the line, its terminator, and what
           \* earlier, longer lines left behind it
  len,     \* what the last getline of the header loop returned
  post,    \* the record being built
  posts,   \* the array posts, its elements stored so far
  spill,   \* the records stored past the end of the array
  nposts,
  out,     \* stdout, one element per call of printf or puts
  err,     \* stderr, one element per diagnostic
  exit     \* the exit code, -1 while the program runs

vars == <<pc, dir, f, fpos, line, len, post, posts, spill, nposts, out, err, exit>>

----------------------------------------------------------------------------
(* Bounds of the model.                                                    *)

\* The first MaxVaried directory entries are of any kind; the entries after
\* them are ordinary posts (OrdinaryFile).
MaxVaried == 2

\* qsort's order of elements that compare equal is enumerated in full for
\* arrays of at most MaxPermLen elements.
MaxPermLen == 3

----------------------------------------------------------------------------
(* Program constants.                                                      *)

MAX_POSTS == 100

Chars(s) == [i \in 1..Len(s) |-> SubSeq(s, i, i)]

NUL == "NUL"

posts_dir == Chars("posts")

metadata_separator == Chars("---\n")

\* sizeof in place of strlen: the terminator counted.
date_line_len_sizeof == Len(Chars("date: YYYY-MM-DD\n")) + 1

date_line_len == Len(Chars("date: YYYY-MM-DD\n"))

----------------------------------------------------------------------------
(* Bytes and C strings.                                                    *)

Lower == Chars("abcdefghijklmnopqrstuvwxyz")

Digit == Chars("0123456789")

Pos(s, c) == CHOOSE i \in 1..Len(s) : s[i] = c

\* The byte value of a character (ASCII).
Ord(c) ==
  IF c = NUL THEN 0
  ELSE IF c = "\n" THEN 10
  ELSE IF c = " " THEN 32
  ELSE IF c = "-" THEN 45
  ELSE IF c = ":" THEN 58
  ELSE IF c = "?" THEN 63
  ELSE IF c = "T" THEN 84
  ELSE IF \E i \in 1..Len(Digit) : Digit[i] = c THEN 47 + Pos(Digit, c)
  ELSE 96 + Pos(Lower, c)

\* s[i] of a C string held without its terminator: the terminator follows it.
StrAt(s, i) == IF i <= Len(s) THEN s[i] ELSE NUL

\* The bytes of a buffer from offset off (0-based) on.
From(b, off) == SubSeq(b, off + 1, Len(b))

HasNul(b) == \E i \in 1..Len(b) : b[i] = NUL

\* The C string at the start of b, when b holds its terminator.
UpToNul(b) == SubSeq(b, 1, (CHOOSE i \in 1..Len(b) : b[i] = NUL /\ \A j \in 1..(i - 1) : b[j] # NUL) - 1)

\* What lies past the bytes the program has written: the allocation is not
\* initialized, it may hold a terminator at once or a byte of garbage first.
Uninitialized == {<<>>, <<"?">>}

\* The C strings a read at offset off of buffer b can see.
CStrs(b, off) ==
  IF HasNul(From(b, off)) THEN {UpToNul(From(b, off))}
  ELSE {From(b, off) \o g : g \in Uninitialized}

\* strchr(s, c): the offset of the first c in s, or -1 for NULL.
strchr(s, c) ==
  IF \E i \in 1..Len(s) : s[i] = c
  THEN (CHOOSE i \in 1..Len(s) : s[i] = c /\ \A j \in 1..(i - 1) : s[j] # c) - 1
  ELSE -1

\* strncmp(s1, s2, n) == 0: the first n characters agree, the comparison
\* ending at a terminator.
strncmp0(s1, s2, n) ==
  \A i \in 1..n :
    \/ \E j \in 1..(i - 1) : StrAt(s1, j) = NUL
    \/ StrAt(s1, i) = StrAt(s2, i)

\* What "%.*s" prints of the string s with precision prec: a negative
\* precision is taken as if it were omitted.
PrintfS(s, prec) == IF prec < 0 \/ prec >= Len(s) THEN s ELSE SubSeq(s, 1, prec)

RECURSIVE Dec(_)
Dec(n) == IF n < 10 THEN <<Digit[n + 1]>> ELSE Dec(n \div 10) \o <<Digit[(n % 10) + 1]>>

----------------------------------------------------------------------------
(* The date and the comparison.                                            *)

Zero64 == [hi |-> 0, lo |-> 0]

\* struct DateString laid over the ten bytes b.
DateString(b) ==
  [y |-> <<Ord(b[1]), Ord(b[2]), Ord(b[3]), Ord(b[4])>>,
   hyphen1 |-> Ord(b[5]),
   m |-> <<Ord(b[6]), Ord(b[7])>>,
   hyphen2 |-> Ord(b[8]),
   d |-> <<Ord(b[9]), Ord(b[10])>>]

Shl(b, k) == b * 2^k

\* The month and the day packed in each other's place.
PackDateDayFirst(s) ==
  [hi |-> Shl(s.y[1], 56 - 32) + Shl(s.y[2], 48 - 32) + Shl(s.y[3], 40 - 32) + Shl(s.y[4], 32 - 32),
   lo |-> Shl(s.d[1], 24) + Shl(s.d[2], 16) + Shl(s.m[1], 8) + s.m[2]]

\* The shifts of the source, each less 32 in the high half; the fields are
\* disjoint, so | is +.
PackDate(s) ==
  [hi |-> Shl(s.y[1], 56 - 32) + Shl(s.y[2], 48 - 32) + Shl(s.y[3], 40 - 32) + Shl(s.y[4], 32 - 32),
   lo |-> Shl(s.m[1], 24) + Shl(s.m[2], 16) + Shl(s.d[1], 8) + s.d[2]]

\* a - b, the halves subtracted apart: the value is hi * 2^32 + lo with
\* |lo| < 2^32, so its sign is that of hi, or of lo when hi is 0.
Sub64(a, b) == [hi |-> a.hi - b.hi, lo |-> a.lo - b.lo]

Gt0(d) == d.hi > 0 \/ (d.hi = 0 /\ d.lo > 0)

Lt0(d) == d.hi < 0 \/ (d.hi = 0 /\ d.lo < 0)

cmp_posts(lhs, rhs) ==
  LET lhs_date == lhs.date
      rhs_date == rhs.date
      d == Sub64(rhs_date, rhs_date)
  IN  (IF Gt0(d) THEN 1 ELSE 0) - (IF Lt0(d) THEN 1 ELSE 0)

Sorted(r) == \A i \in 1..(Len(r) - 1) : cmp_posts(r[i], r[i + 1]) <= 0

Reverse(a) == [i \in 1..Len(a) |-> a[Len(a) + 1 - i]]

Perms(n) == {p \in [1..n -> 1..n] : \A i, j \in 1..n : i # j => p[i] # p[j]}

\* qsort(a, Len(a), sizeof(struct Post), cmp_posts): the array in an order
\* the comparison accepts.  The order of elements that compare equal is
\* unspecified: every order for short arrays, and for longer ones the order
\* the array came in and its reversal.
qsort(a) ==
  LET orders == IF Len(a) <= MaxPermLen
                THEN {[i \in 1..Len(a) |-> a[p[i]]] : p \in Perms(Len(a))}
                ELSE {a, Reverse(a)}
  IN  {r \in orders : Sorted(r)}

----------------------------------------------------------------------------
(* The posts directory: what readdir and fopen find.                       *)

File(ls) == [i \in 1..Len(ls) |-> Chars(ls[i])]

OrdinaryFile == File(<<"T\n", "date: 2024-03-01\n">>)

GoodFiles ==
  {File(<<"T\n", "title: x\n", "date: 2023-12-25\n", "---\n", "body\n">>)}

OddFiles ==
  {File(<<"T\n", "dates: 2024-01-15\n", "---\n">>),
   File(<<"T\n", "date: 2024-02-01\n", "dat: 2023-12-251\n", "k: v">>),
   File(<<"Title\n", "k:">>)}

BadFiles ==
  {File(<<"T\n", "title: x\n", "nocolon\n">>),
   File(<<"T\n", "date: 2024-1-5\n">>),
   File(<<"T\n", "date: 2024-01-155\n">>),
   File(<<"T\n", ": x\n">>),
   File(<<"T\n", "d: x\n">>),
   File(<<"T\n", "da: x\n">>),
   File(<<"T\n", "---">>)}

Files == GoodFiles \cup OddFiles \cup BadFiles

\* The name of the i-th entry readdir returns.
Name(i, dot) == (IF dot THEN <<".">> ELSE <<>>) \o <<"p">> \o Dec(i)

Entries(i) ==
  IF i <= MaxVaried
  THEN {[name |-> Name(i, FALSE), openable |-> TRUE, lines |-> ls] : ls \in Files}
       \cup {[name |-> Name(i, FALSE), openable |-> FALSE, lines |-> <<>>],
             [name |-> Name(i, TRUE), openable |-> TRUE, lines |-> <<>>]}
  ELSE {[name |-> Name(i, FALSE), openable |-> TRUE, lines |-> OrdinaryFile]}

\* getline(&line, &cap, f) with the buffer b and pos lines of ls read: the
\* line and its terminator are written over the start of the buffer.
getline(b, ls, pos) ==
  IF pos < Len(ls)
  THEN [len |-> Len(ls[pos + 1]),
        line |-> ls[pos + 1] \o <<NUL>> \o From(b, Len(ls[pos + 1]) + 1),
        fpos |-> pos + 1]
  ELSE [len |-> -1, line |-> b, fpos |-> pos]

\* The value an object of automatic storage holds before it is assigned:
\* what its place held last (prev), or zero.
Indeterminate(prev) == {Zero64, prev}

Diag(what, name, text) == [what |-> what, name |-> name, line |-> text]

----------------------------------------------------------------------------
(* The program.                                                            *)

Init ==
  /\ pc = "opendir"
  /\ dir = <<>>
  /\ f = <<>>
  /\ fpos = 0
  /\ line = <<>>
  /\ len = 0
  /\ post = [date |-> Zero64, json |-> <<>>]
  /\ posts = <<>>
  /\ spill = <<>>
  /\ nposts = 0
  /\ out = <<>>
  /\ err = <<>>
  /\ exit = -1

\* The diagnostic written and the run ended with exit code 0.
FailReturning0(d) ==
  /\ err' = Append(err, d)
  /\ exit' = 0
  /\ pc' = "exit"

\* fprintf(stderr, ...) or perror(...), then return 1.
Fail(d) ==
  /\ err' = Append(err, d)
  /\ exit' = 1
  /\ pc' = "exit"

\* main, lines 39-47.
OpenDir ==
  /\ pc = "opendir"
  /\ \/ Fail(Diag("perror", posts_dir, <<>>))
     \/ /\ pc' = "readdir"
        /\ UNCHANGED <<err, exit>>
  /\ UNCHANGED <<dir, f, fpos, line, len, post, posts, spill, nposts, out>>

\* main, lines 48-64: the head of the loop over the directory, up to the
\* getline that skips the first line of the file.
ReadDir ==
  /\ pc = "readdir"
  /\ \/ /\ pc' = "qsort"
        /\ UNCHANGED <<dir, f, fpos, line, len, post, err, exit>>
     \/ \E ent \in Entries(Len(dir) + 1) :
          /\ dir' = Append(dir, ent)
          /\ \/ /\ ent.name[1] = "."
                /\ UNCHANGED <<pc, f, fpos, line, len, post, err, exit>>
             \/ /\ ent.name[1] # "."
                /\ \E v \in Indeterminate(post.date) :
                     post' = [date |-> v, json |-> Chars("{\"path\": \"") \o ent.name \o Chars("\"")]
                /\ \/ /\ ~ent.openable
                      /\ Fail(Diag("perror", ent.name, <<>>))
                      /\ UNCHANGED <<f, fpos, line, len>>
                   \/ /\ ent.openable
                      /\ LET r == getline(<<>>, ent.lines, 0)
                         IN  /\ f' = ent.lines
                             /\ fpos' = r.fpos
                             /\ line' = r.line
                      /\ pc' = "getline"
                      /\ UNCHANGED <<len, err, exit>>
  /\ UNCHANGED <<posts, spill, nposts, out>>

\* main, lines 65-66: the condition of the loop over the header lines.
GetLine ==
  /\ pc = "getline"
  /\ LET r == getline(line, f, fpos)
     IN  /\ len' = r.len
         /\ line' = r.line
         /\ fpos' = r.fpos
         /\ pc' = IF r.len # -1 /\ UpToNul(r.line) # metadata_separator
                  THEN "header" ELSE "store"
  /\ UNCHANGED <<dir, f, post, posts, spill, nposts, out, err, exit>>

\* main, lines 67-86: one header line.
Header ==
  /\ pc = "header"
  /\ LET s == UpToNul(line)
         colon == strchr(s, ":")
         key_len == colon
     IN  \/ /\ colon = -1
            /\ Fail(Diag("missing colon in line", dir[Len(dir)].name, s))
            /\ UNCHANGED post
         \/ /\ colon # -1
            /\ \E v \in CStrs(line, colon + 2) :
                 LET json == post.json \o Chars(", \"") \o PrintfS(s, key_len)
                               \o Chars("\": \"") \o PrintfS(v, len - key_len - 3)
                               \o Chars("\"")
                 IN  \/ /\ strncmp0(s, Chars("date"), colon)
                        /\ len # date_line_len
                        /\ post' = [post EXCEPT !.json = json]
                        /\ Fail(Diag("malformed date line", dir[Len(dir)].name, s))
                     \/ /\ strncmp0(s, Chars("date"), colon)
                        /\ len = date_line_len
                        /\ post' = [date |-> PackDate(DateString(From(line, colon + 2))),
                                    json |-> json]
                        /\ pc' = "getline"
                        /\ UNCHANGED <<err, exit>>
                     \/ /\ ~strncmp0(s, Chars("date"), colon)
                        /\ post' = [post EXCEPT !.json = json]
                        /\ pc' = "getline"
                        /\ UNCHANGED <<err, exit>>
  /\ UNCHANGED <<dir, f, fpos, line, len, posts, spill, nposts, out>>

\* main, lines 88-96: the end of the loop over the directory.  posts[i] of
\* the source is posts[i + 1] here; a store at an index from MAX_POSTS on
\* lands past the array, in spill.
Store ==
  /\ pc = "store"
  /\ LET p == [post EXCEPT !.json = post.json \o Chars("}")]
     IN  /\ post' = p
         /\ IF nposts < MAX_POSTS
            THEN posts' = Append(posts, p) /\ UNCHANGED spill
            ELSE spill' = Append(spill, p) /\ UNCHANGED posts
  /\ nposts' = nposts + 1
  /\ \/ /\ nposts' > MAX_POSTS
        /\ Fail(Diag("too many posts", Dec(nposts'), <<>>))
     \/ /\ nposts' <= MAX_POSTS
        /\ pc' = "readdir"
        /\ UNCHANGED <<err, exit>>
  /\ UNCHANGED <<dir, f, fpos, line, len, out>>

\* main, line 97.
Qsort ==
  /\ pc = "qsort"
  /\ \E r \in qsort(posts) : posts' = r
  /\ pc' = "print"
  /\ UNCHANGED <<dir, f, fpos, line, len, post, spill, nposts, out, err, exit>>

\* puts(s): s and a newline.
puts(s) == s \o Chars("\n")

\* main, lines 98-104: one element of out per call of printf or puts.
Output ==
  /\ pc = "print"
  /\ out' = out \o <<Chars("[\n")>> \o [i \in 1..nposts |-> puts(posts[i].json)]
                \o <<Chars("]\n")>>
  /\ exit' = 0
  /\ pc' = "exit"
  /\ UNCHANGED <<dir, f, fpos, line, len, post, posts, spill, nposts, err>>

Next == OpenDir \/ ReadDir \/ GetLine \/ Header \/ Store \/ Qsort \/ Output

Spec == Init /\ [][Next]_vars

----------------------------------------------------------------------------
(* The vocabulary of the properties: the header of a file and the record   *)
(* it should give, read off the file and not off the program's variables.  *)

Range(q) == {q[i] : i \in 1..Len(q)}

IsPrefix(p, t) == Len(p) <= Len(t) /\ SubSeq(t, 1, Len(p)) = p

HasColon(l) == \E i \in 1..Len(l) : l[i] = ":"

FirstColon(l) == CHOOSE i \in 1..Len(l) : l[i] = ":" /\ \A j \in 1..(i - 1) : l[j] # ":"

\* The text before the first colon.
KeyOf(l) == SubSeq(l, 1, FirstColon(l) - 1)

\* The text that starts two characters after the first colon and ends just
\* before the newline of the line.
ValueOf(l) ==
  LET body == IF l # <<>> /\ l[Len(l)] = "\n" THEN SubSeq(l, 1, Len(l) - 1) ELSE l
  IN  SubSeq(body, FirstColon(l) + 2, Len(body))

\* The lines after the first, up to the first line "---\n" or the end.
HeaderLines(ls) ==
  LET seps == {i \in 2..Len(ls) : ls[i] = Chars("---\n")}
      last == IF seps = {} THEN Len(ls) ELSE (CHOOSE i \in seps : \A j \in seps : i <= j) - 1
  IN  SubSeq(ls, 2, last)

IsDateLine(l) == HasColon(l) /\ KeyOf(l) = Chars("date")

NonDot(q) == SelectSeq(q, LAMBDA e : e.name[1] # ".")

PathText(e) == Chars("{\"path\": \"") \o e.name \o Chars("\"")

RECURSIVE FieldsText(_)
FieldsText(ls) ==
  IF ls = <<>> THEN <<>>
  ELSE Chars(", \"") \o KeyOf(ls[1]) \o Chars("\": \"") \o ValueOf(ls[1]) \o Chars("\"")
         \o FieldsText(Tail(ls))

\* The object of a file: path, then one field per header line.
ObjectText(e) == PathText(e) \o FieldsText(HeaderLines(e.lines)) \o Chars("}")

\* The directory entry a record was built from, by its path.
EntryOf(rec) == CHOOSE e \in Range(dir) : IsPrefix(PathText(e), rec.json)

EnumIndex(rec) == CHOOSE k \in 1..Len(dir) : dir[k] = EntryOf(rec)

\* A file as the spec describes one: every header line is "key: value\n",
\* and exactly one of them is a date line, 17 characters long.
Plain(e) ==
  LET h == HeaderLines(e.lines)
  IN  /\ \A i \in 1..Len(h) :
           /\ HasColon(h[i])
           /\ KeyOf(h[i]) \in {Chars("date"), Chars("title")}
           /\ Len(h[i]) >= FirstColon(h[i]) + 3
           /\ h[i][FirstColon(h[i]) + 1] = " "
           /\ h[i][Len(h[i])] = "\n"
           /\ IsDateLine(h[i]) => Len(h[i]) = 17
      /\ Cardinality({i \in 1..Len(h) : IsDateLine(h[i])}) = 1

\* Signed comparison of two 64-bit values whose halves are below 2^31.
Less64(a, b) == a.hi < b.hi \/ (a.hi = b.hi /\ a.lo < b.lo)

RECURSIVE BigEndian(_)
BigEndian(bytes) ==
  IF bytes = <<>> THEN 0
  ELSE 256 * BigEndian(SubSeq(bytes, 1, Len(bytes) - 1)) + bytes[Len(bytes)]

\* The bytes Y,Y,Y,Y,M,M,D,D of a value "YYYY-MM-DD" as a big-endian integer.
YMDKey(v) ==
  [hi |-> BigEndian(<<Ord(v[1]), Ord(v[2]), Ord(v[3]), Ord(v[4])>>),
   lo |-> BigEndian(<<Ord(v[6]), Ord(v[7]), Ord(v[9]), Ord(v[10])>>)]

RECURSIVE Decimal(_)
Decimal(ds) ==
  IF ds = <<>> THEN 0
  ELSE 10 * Decimal(SubSeq(ds, 1, Len(ds) - 1)) + (Ord(ds[Len(ds)]) - 48)

\* The calendar order of two values "YYYY-MM-DD" made of digits.
CalendarLess(a, b) ==
  LET ya == Decimal(SubSeq(a, 1, 4))
      yb == Decimal(SubSeq(b, 1, 4))
      ma == Decimal(SubSeq(a, 6, 7))
      mb == Decimal(SubSeq(b, 6, 7))
      da == Decimal(SubSeq(a, 9, 10))
      db == Decimal(SubSeq(b, 9, 10))
  IN  ya < yb \/ (ya = yb /\ (ma < mb \/ (ma = mb /\ da < db)))

\* The line the program holds.
Cur == UpToNul(line)

\* A header line has just been handled and the run goes on: line and len
\* are still those of that line.
Accepted == pc = "getline" /\ fpos >= 2

Finished == pc = "exit" /\ exit = 0

----------------------------------------------------------------------------
(* The properties.                                                         *)

AllPlain == \A e \in Range(NonDot(dir)) : e.openable /\ Plain(e)

\* C1: on a successful run the records are printed in descending order of
\* their date sort keys, whatever order readdir returned the files in
\* (stated for directories of well-formed files, each with its date).
C1_DescendingOutput ==
  (Finished /\ AllPlain) =>
    /\ out = <<Chars("[\n")>> \o [i \in 1..nposts |-> puts(posts[i].json)] \o <<Chars("]\n")>>
    /\ \A i, j \in 1..nposts : i < j => ~Less64(posts[i].date, posts[j].date)

\* What makes a file fatal: it cannot be opened, or a header line has no
\* colon, or a line with the key date is not 17 characters long.
FatalEntry(e) ==
  /\ e.name[1] # "."
  /\ \/ ~e.openable
     \/ \E l \in Range(HeaderLines(e.lines)) :
          \/ ~HasColon(l)
          \/ IsDateLine(l) /\ Len(l) # 17

\* The entries the program has done with.
Done(k) == k < Len(dir) \/ pc \in {"readdir", "qsort", "print", "exit"}

\* C2: every fatal condition (directory or file cannot be opened, header
\* line without colon, malformed date line, too many posts) ends the run
\* with exit code 1 and nothing on stdout; stdout begins only after every
\* entry was parsed without error.
C2_FatalExitsSilently ==
  /\ exit \in {-1, 0, 1}
  /\ err # <<>> => exit = 1 /\ pc = "exit"
  /\ exit = 1 => out = <<>> /\ err # <<>>
  /\ dir # <<>> /\ FatalEntry(dir[Len(dir)]) /\ Done(Len(dir)) => exit = 1
  /\ Len(NonDot(dir)) > MAX_POSTS /\ Done(Len(dir)) => exit = 1
  /\ out # <<>> =>
       /\ Finished
       /\ err = <<>>
       /\ nposts = Len(NonDot(dir))
       /\ \A e \in Range(dir) : ~FatalEntry(e)

\* C2's case: a header line without a colon has ended the run.
C2_Witness ==
  /\ pc = "exit"
  /\ exit = 1
  /\ out = <<>>
  /\ Len(err) = 1
  /\ err[1].what = "missing colon in line"
  /\ \E l \in Range(HeaderLines(dir[Len(dir)].lines)) : ~HasColon(l)

\* C3: the object of every file holds, after path, one string field per
\* header line, named by the text before the first colon and valued by the
\* text from two characters after that colon to just before the newline,
\* and holds nothing else.
C3_FieldsRoundTrip ==
  \A i \in 1..Len(posts) : posts[i].json = ObjectText(EntryOf(posts[i]))

OneLine(t) == t # <<>> /\ \A i \in 1..Len(t) : (t[i] = "\n") <=> (i = Len(t))

\* C4: on a successful run the output is a line "[", one object line per
\* entry whose name does not begin with ".", and a line "]"; dot entries
\* give no object.
C4_OneObjectPerEntry ==
  Finished =>
    LET nd == NonDot(dir)
    IN  /\ Len(out) = Len(nd) + 2
        /\ out[1] = Chars("[\n")
        /\ out[Len(out)] = Chars("]\n")
        /\ \A i \in 2..(Len(out) - 1) :
             /\ OneLine(out[i])
             /\ \E e \in Range(nd) : IsPrefix(PathText(e), out[i])
        /\ \A e \in Range(nd) :
             Cardinality({i \in 2..(Len(out) - 1) : IsPrefix(PathText(e), out[i])}) = 1
        /\ \A e \in Range(dir) :
             e.name[1] = "." => \A i \in 1..Len(out) : ~IsPrefix(PathText(e), out[i])
        /\ nd = <<>> => out = <<Chars("[\n"), Chars("]\n")>>

HasDate(e) == \E l \in Range(HeaderLines(e.lines)) : IsDateLine(l) /\ Len(l) = 17

\* The key of the last date line of a file.
DateKey(e) ==
  LET h == HeaderLines(e.lines)
      k == CHOOSE i \in 1..Len(h) :
             IsDateLine(h[i]) /\ \A j \in (i + 1)..Len(h) : ~IsDateLine(h[j])
  IN  YMDKey(ValueOf(h[k]))

\* Every header line of the file is "key: value\n".
Shaped(e) ==
  \A l \in Range(HeaderLines(e.lines)) :
    /\ HasColon(l)
    /\ FirstColon(l) > 1
    /\ Len(l) >= FirstColon(l) + 3
    /\ l[FirstColon(l) + 1] = " "
    /\ l[Len(l)] = "\n"

\* C5: a file without a date field is a fatal input error and never
\* becomes a record: every record stored has a sort key derived from a
\* well-formed date line of its own file (stated for files whose header
\* lines are all "key: value\n").
C5_EveryRecordDated ==
  /\ \A r \in Range(posts) \cup Range(spill) :
       Shaped(EntryOf(r)) => HasDate(EntryOf(r)) /\ r.date = DateKey(EntryOf(r))
  /\ \A k \in 1..Len(dir) :
       (dir[k].name[1] # "." /\ dir[k].openable /\ Shaped(dir[k]) /\ ~HasDate(dir[k]) /\ Done(k))
         => exit = 1

\* C6 as stated: a line with the key date is accepted only if it is 18
\* characters long, newline counted.
C6_Original_Len18 == (Accepted /\ IsDateLine(Cur)) => len = 18

MalformedDate(e) == e.what = "malformed date line"

\* C6, amended: a line with the key date is accepted only if it is 17
\* characters long, newline counted; a date line of any other length ends
\* the run with exit code 1 and a malformed-date diagnostic naming the file
\* and the line.
C6_DateLineLen17 ==
  [][(pc = "header" /\ IsDateLine(Cur)) =>
       /\ len = Len(Cur)
       /\ len = 17 => pc' = "getline" /\ exit' = -1 /\ err' = err
       /\ len # 17 =>
            /\ pc' = "exit"
            /\ exit' = 1
            /\ out' = <<>>
            /\ err' = <<Diag("malformed date line", dir[Len(dir)].name, Cur)>>]_vars

\* C6's case: a date line has been accepted.
C6_Witness == Accepted /\ IsDateLine(Cur) /\ len = 17 /\ exit = -1

\* C7: a record is only ever stored at an index below MAX_POSTS; with more
\* entries the run ends with the too-many-posts diagnostic before any store
\* outside the array.
C7_StoreInBounds ==
  /\ spill = <<>>
  /\ Len(posts) <= MAX_POSTS
  /\ nposts = Len(posts)

\* C8: on a successful run two records with equal sort keys are printed in
\* the order readdir returned their files in (stated for directories of
\* well-formed files, each with its date).
C8_TiesKeepEnumerationOrder ==
  (Finished /\ AllPlain) =>
    \A i, j \in 1..nposts :
      (i < j /\ posts[i].date = posts[j].date) => EnumIndex(posts[i]) < EnumIndex(posts[j])

DateSamples ==
  {Chars("2023-12-25"), Chars("2023-12-31"), Chars("2024-01-15"), Chars("2024-02-01"),
   Chars("2024-03-01"), Chars("1999-09-09"), Chars("2000-10-01")}

\* The key the program derives from the line "date: " \o v \o "\n".
ProgramKey(v) == PackDate(DateString(From(Chars("date: ") \o v \o Chars("\n"), 6)))

\* The program's keys of the sample dates order as the calendar does.
SampleKeysOrdered ==
  /\ \A a, b \in DateSamples :
       /\ CalendarLess(a, b) <=> Less64(ProgramKey(a), ProgramKey(b))
       /\ a = b <=> ProgramKey(a) = ProgramKey(b)
  /\ Less64(ProgramKey(Chars("2023-12-31")), ProgramKey(Chars("2024-01-15")))
  /\ Less64(ProgramKey(Chars("2024-01-15")), ProgramKey(Chars("2024-02-01")))

\* C9: the key stored for an accepted line "date: YYYY-MM-DD" is the bytes
\* Y,Y,Y,Y,M,M,D,D of the value read as a big-endian 64-bit integer; so
\* the key of an earlier calendar date is smaller than that of a later one,
\* and equal dates give equal keys.
\* (Every date the program accepts here is one of the samples, so their
\* order is that of the stored keys.)
C9_KeyIsBigEndianYMD ==
  /\ (Accepted /\ IsDateLine(Cur)) =>
       /\ post.date = YMDKey(ValueOf(Cur))
       /\ ValueOf(Cur) \in DateSamples
       /\ post.date = ProgramKey(ValueOf(Cur))
  /\ SampleKeysOrdered

\* C9's case: the line "date: 2023-12-25" has been accepted and its key
\* stored.
C9_Witness ==
  /\ Accepted
  /\ Cur = Chars("date: 2023-12-25\n")
  /\ post.date = YMDKey(Chars("2023-12-25"))

\* C10: the length check and the assignment of the sort key are applied to
\* a header line if and only if its key is exactly "date": a line with any
\* other key is never rejected as a malformed date and never changes the
\* sort key.
C10_OnlyKeyDate ==
  [][(pc = "header" /\ HasColon(Cur)) =>
       IF KeyOf(Cur) = Chars("date")
       THEN \/ len = 17 /\ post'.date = YMDKey(ValueOf(Cur))
            \/ len # 17 /\ \E e \in Range(err') : MalformedDate(e)
       ELSE /\ post'.date = post.date
            /\ \A e \in Range(err') : ~MalformedDate(e)]_vars

====
